---------------------------- MODULE Spec2Model ----------------------------
(***************************************************************************)
(* A model of the collision dashboard: the Dash program (src/app.py) and   *)
(* the Streamlit program (src/app2.py).                                     *)
(*                                                                         *)
(* A Python string is a sequence of one-character strings, so that `in',   *)
(* upper(), lower(), split(), isdigit() and int() are computed character   *)
(* by character.  A value that may be missing (None, NaN, a key that is    *)
(* not set) is None when it is missing and Some(x) when it is x.           *)
(***************************************************************************)
EXTENDS Integers, Sequences, FiniteSets

VARIABLES
    nv_in,          \* the argument v of normalize_vehicle
    nv_out,         \* what normalize_vehicle returned for it
    nv_n,           \* how many times normalize_vehicle has been applied
    prog,           \* the program that runs: "app" (src/app.py) or "app2" (src/app2.py)
    df,             \* the module-level DataFrame df: [columns, rows]
    phase,          \* where the program is
    facets,         \* the facet selections of the last report request
    text,           \* the search text of the last request (None: never typed)
    interp,         \* the borough, year and injury category the search interpreter
                    \* drew from the text: what apply_search_text returned, what
                    \* parse_search_query assigned
    dff,            \* the filtered frame of the last request (dff / filtered_df)
    outcome,        \* how the last request ended
    session_state,  \* st.session_state of app2
    event,          \* what the last request was: "report" (app.py's callback),
                    \* "load", "search" or "submit" (a run of app2.py's script)
    loaded,         \* history: the frame load_data returned
    from_search,    \* history: the filter_* keys of session_state whose value
                    \* parse_search_query wrote last
    views,          \* what each view of the last request shows: "figure", a
                    \* message, "nothing", or "absent" for a view that was not built
    map_sample,     \* the positions in dff of the records the map plots
    random_state    \* what the generator seeded with 42 does: the positions in
                    \* the order in which sample leaves records out

nvars == <<nv_in, nv_out, nv_n>>
avars == <<prog, df, phase, facets, text, interp, dff, outcome, session_state,
           event, loaded, from_search>>
mvars == <<views, map_sample, random_state>>
vars == <<nv_in, nv_out, nv_n, prog, df, phase, facets, text, interp, dff, outcome,
          session_state, event, loaded, from_search, views, map_sample, random_state>>

-----------------------------------------------------------------------------
(* Bounds of the model *)

\* an input string is the concatenation of at most MaxFragments fragments
MaxFragments == 2
\* normalize_vehicle is re-applied to its own result at most this many times
MaxApplications == 3
\* a search text is at most MaxWords words of SearchWords joined by spaces
MaxWords == 2
\* a loaded file has at most MaxRows records
MaxRows == 2
\* the most records a filtered subset has beyond SAMPLE_CAP and the records
\* of the pool in it
MaxOver == 1

-----------------------------------------------------------------------------
(* Python strings *)

None == << >>
Some(x) == <<x>>

LowerCase == <<"a","b","c","d","e","f","g","h","i","j","k","l","m","n","o","p","q","r","s","t","u","v","w","x","y","z">>
UpperCase == <<"A","B","C","D","E","F","G","H","I","J","K","L","M","N","O","P","Q","R","S","T","U","V","W","X","Y","Z">>
Digits == <<"0","1","2","3","4","5","6","7","8","9">>

isna(v) == v = None

InSeq(c, s) == \E i \in 1..Len(s) : s[i] = c

IndexOf(c, s) == CHOOSE i \in 1..Len(s) : s[i] = c

\* the characters that are not letters stay as they are
ToUpper == [c \in { LowerCase[i] : i \in 1..Len(LowerCase) } |-> UpperCase[IndexOf(c, LowerCase)]]
ToLower == [c \in { UpperCase[i] : i \in 1..Len(UpperCase) } |-> LowerCase[IndexOf(c, UpperCase)]]

upper_char(c) == IF c \in DOMAIN ToUpper THEN ToUpper[c] ELSE c
lower_char(c) == IF c \in DOMAIN ToLower THEN ToLower[c] ELSE c

RECURSIVE upper(_)
upper(s) == IF Len(s) = 0 THEN << >> ELSE << upper_char(s[1]) >> \o upper(Tail(s))

RECURSIVE lower(_)
lower(s) == IF Len(s) = 0 THEN << >> ELSE << lower_char(s[1]) >> \o lower(Tail(s))

\* k in s
Contains(s, k) ==
    \E i \in 0..(Len(s) - Len(k)) : \A j \in 1..Len(k) : s[i + j] = k[j]

Min(S) == CHOOSE x \in S : \A y \in S : x <= y
Max(S) == CHOOSE x \in S : \A y \in S : x >= y

startswith(s, prefix) ==
    Len(s) >= Len(prefix) /\ SubSeq(s, 1, Len(prefix)) = prefix

\* s.split(): the maximal runs of non-blank characters of s from position i
\* on, after the run cur that ends just before i
RECURSIVE SplitFrom(_, _, _)
SplitFrom(s, i, cur) ==
    IF i > Len(s) THEN (IF cur = << >> THEN << >> ELSE << cur >>)
    ELSE IF s[i] = " "
        THEN (IF cur = << >> THEN << >> ELSE << cur >>) \o SplitFrom(s, i + 1, << >>)
        ELSE SplitFrom(s, i + 1, Append(cur, s[i]))

split(s) == SplitFrom(s, 1, << >>)

isdigit(s) == Len(s) > 0 /\ \A i \in 1..Len(s) : InSeq(s[i], Digits)

\* int(s) of a string of digits
RECURSIVE int(_)
int(s) ==
    IF Len(s) = 0 THEN 0
    ELSE 10 * int(SubSeq(s, 1, Len(s) - 1)) + (IndexOf(s[Len(s)], Digits) - 1)

-----------------------------------------------------------------------------
(* Vehicle Category Cleaner *)

AMBULANCE == <<"A","M","B","U","L","A","N","C","E">>
TAXI == <<"T","A","X","I">>
BUS == <<"B","U","S">>
MOTORCYCLE == <<"M","O","T","O","R","C","Y","C","L","E">>
BICYCLE == <<"B","I","C","Y","C","L","E">>
SUV == <<"S","U","V">>
TRUCK_VAN == <<"T","R","U","C","K","/","V","A","N">>
CAR == <<"C","A","R">>
OTHER_CAT == <<"O","T","H","E","R">>
UNKNOWN == <<"U","N","K","N","O","W","N">>

\* mutants of normalize_vehicle
normalize_vehicle_SuvBeforeBus(v) ==
    IF isna(v) THEN UNKNOWN
    ELSE LET s == upper(v[1]) IN
        IF Contains(s, <<"A","M","B">>) \/ Contains(s, <<"A","M","B","U","L">>) THEN AMBULANCE
        ELSE IF Contains(s, <<"T","A","X","I">>) THEN TAXI
        ELSE IF Contains(s, <<"S","U","V">>) \/ Contains(s, <<"S","T","A","T","I","O","N"," ","W","A","G","O","N">>) THEN SUV
        ELSE IF Contains(s, <<"B","U","S">>) THEN BUS
        ELSE IF Contains(s, <<"M","O","T","O","R","C","Y","C","L","E">>) \/ Contains(s, <<"S","C","O","O","T","E","R">>)
                \/ Contains(s, <<"M","O","T","O","R","B","I","K","E">>) THEN MOTORCYCLE
        ELSE IF Contains(s, <<"B","I","C","Y","C","L","E">>) \/ Contains(s, <<"B","I","K","E">>) THEN BICYCLE
        ELSE IF Contains(s, <<"P","I","C","K">>) \/ Contains(s, <<"P","I","C","K","-","U","P">>)
                \/ Contains(s, <<"P","I","C","K","U","P">>) THEN TRUCK_VAN
        ELSE IF Contains(s, <<"T","R","U","C","K">>) \/ Contains(s, <<"V","A","N">>) THEN TRUCK_VAN
        ELSE IF Contains(s, <<"S","E","D","A","N">>) \/ Contains(s, <<"4"," ","D","O","O","R">>) \/ Contains(s, <<"4","-","D","O","O","R">>)
                \/ Contains(s, <<"2"," ","D","O","O","R">>) \/ Contains(s, <<"2","-","D","O","O","R">>) THEN CAR
        ELSE OTHER_CAT

normalize_vehicle_EmptyIsUnknown(v) ==
    IF isna(v) \/ v = Some(<< >>) THEN UNKNOWN
    ELSE LET s == upper(v[1]) IN
        IF Contains(s, <<"A","M","B">>) \/ Contains(s, <<"A","M","B","U","L">>) THEN AMBULANCE
        ELSE IF Contains(s, <<"T","A","X","I">>) THEN TAXI
        ELSE IF Contains(s, <<"B","U","S">>) THEN BUS
        ELSE IF Contains(s, <<"M","O","T","O","R","C","Y","C","L","E">>) \/ Contains(s, <<"S","C","O","O","T","E","R">>)
                \/ Contains(s, <<"M","O","T","O","R","B","I","K","E">>) THEN MOTORCYCLE
        ELSE IF Contains(s, <<"B","I","C","Y","C","L","E">>) \/ Contains(s, <<"B","I","K","E">>) THEN BICYCLE
        ELSE IF Contains(s, <<"S","U","V">>) \/ Contains(s, <<"S","T","A","T","I","O","N"," ","W","A","G","O","N">>) THEN SUV
        ELSE IF Contains(s, <<"P","I","C","K">>) \/ Contains(s, <<"P","I","C","K","-","U","P">>)
                \/ Contains(s, <<"P","I","C","K","U","P">>) THEN TRUCK_VAN
        ELSE IF Contains(s, <<"T","R","U","C","K">>) \/ Contains(s, <<"V","A","N">>) THEN TRUCK_VAN
        ELSE IF Contains(s, <<"S","E","D","A","N">>) \/ Contains(s, <<"4"," ","D","O","O","R">>) \/ Contains(s, <<"4","-","D","O","O","R">>)
                \/ Contains(s, <<"2"," ","D","O","O","R">>) \/ Contains(s, <<"2","-","D","O","O","R">>) THEN CAR
        ELSE OTHER_CAT

normalize_vehicle_FallsBackToUnknown(v) ==
    IF isna(v) THEN UNKNOWN
    ELSE LET s == upper(v[1]) IN
        IF Contains(s, <<"A","M","B">>) \/ Contains(s, <<"A","M","B","U","L">>) THEN AMBULANCE
        ELSE IF Contains(s, <<"T","A","X","I">>) THEN TAXI
        ELSE IF Contains(s, <<"B","U","S">>) THEN BUS
        ELSE IF Contains(s, <<"M","O","T","O","R","C","Y","C","L","E">>) \/ Contains(s, <<"S","C","O","O","T","E","R">>)
                \/ Contains(s, <<"M","O","T","O","R","B","I","K","E">>) THEN MOTORCYCLE
        ELSE IF Contains(s, <<"B","I","C","Y","C","L","E">>) \/ Contains(s, <<"B","I","K","E">>) THEN BICYCLE
        ELSE IF Contains(s, <<"S","U","V">>) \/ Contains(s, <<"S","T","A","T","I","O","N"," ","W","A","G","O","N">>) THEN SUV
        ELSE IF Contains(s, <<"P","I","C","K">>) \/ Contains(s, <<"P","I","C","K","-","U","P">>)
                \/ Contains(s, <<"P","I","C","K","U","P">>) THEN TRUCK_VAN
        ELSE IF Contains(s, <<"T","R","U","C","K">>) \/ Contains(s, <<"V","A","N">>) THEN TRUCK_VAN
        ELSE IF Contains(s, <<"S","E","D","A","N">>) \/ Contains(s, <<"4"," ","D","O","O","R">>) \/ Contains(s, <<"4","-","D","O","O","R">>)
                \/ Contains(s, <<"2"," ","D","O","O","R">>) \/ Contains(s, <<"2","-","D","O","O","R">>) THEN CAR
        ELSE UNKNOWN

\* src/app.py normalize_vehicle.  The except branch is not modelled: pd.isna,
\* str and upper do not raise on a missing value or a string.
normalize_vehicle(v) ==
    IF isna(v) THEN UNKNOWN
    ELSE LET s == upper(v[1]) IN
        IF Contains(s, <<"A","M","B">>) \/ Contains(s, <<"A","M","B","U","L">>) THEN AMBULANCE
        ELSE IF Contains(s, <<"T","A","X","I">>) THEN TAXI
        ELSE IF Contains(s, <<"B","U","S">>) THEN BUS
        ELSE IF Contains(s, <<"M","O","T","O","R","C","Y","C","L","E">>) \/ Contains(s, <<"S","C","O","O","T","E","R">>)
                \/ Contains(s, <<"M","O","T","O","R","B","I","K","E">>) THEN MOTORCYCLE
        ELSE IF Contains(s, <<"B","I","C","Y","C","L","E">>) \/ Contains(s, <<"B","I","K","E">>) THEN BICYCLE
        ELSE IF Contains(s, <<"S","U","V">>) \/ Contains(s, <<"S","T","A","T","I","O","N"," ","W","A","G","O","N">>) THEN SUV
        ELSE IF Contains(s, <<"P","I","C","K">>) \/ Contains(s, <<"P","I","C","K","-","U","P">>)
                \/ Contains(s, <<"P","I","C","K","U","P">>) THEN TRUCK_VAN
        ELSE IF Contains(s, <<"T","R","U","C","K">>) \/ Contains(s, <<"V","A","N">>) THEN TRUCK_VAN
        ELSE IF Contains(s, <<"S","E","D","A","N">>) \/ Contains(s, <<"4"," ","D","O","O","R">>) \/ Contains(s, <<"4","-","D","O","O","R">>)
                \/ Contains(s, <<"2"," ","D","O","O","R">>) \/ Contains(s, <<"2","-","D","O","O","R">>) THEN CAR
        ELSE OTHER_CAT

-----------------------------------------------------------------------------
(* DataFrames: the set of column names and the rows, each row a function    *)
(* from the column names to cells; a cell is None (NaN) or Some(value).      *)

COL_BOROUGH == "BOROUGH"
COL_YEAR == "YEAR"
COL_VEHICLE_TYPE == "VEHICLE TYPE CODE 1"
COL_FACTOR == "CONTRIBUTING FACTOR VEHICLE 1"
COL_INJURY_TYPE == "INJURY_TYPE"
COL_VEHICLE_CATEGORY == "VEHICLE_CATEGORY"

COL_LATITUDE == "LATITUDE"
COL_LONGITUDE == "LONGITUDE"

\* the columns create_map and the map of app2.py read the coordinates from
location_columns == { COL_LATITUDE, COL_LONGITUDE }

\* hover_data of create_map; CRASH_DATETIME is in every file read_csv parsed
hover_data == { COL_BOROUGH, COL_INJURY_TYPE }

required_columns == { COL_BOROUGH, COL_YEAR, COL_VEHICLE_TYPE, COL_FACTOR, COL_INJURY_TYPE }

\* pd.DataFrame()
EmptyFrame == [columns |-> {}, rows |-> << >>]

\* df.empty
empty(d) == Len(d.rows) = 0 \/ d.columns = {}

\* d[d[column] == value]: NaN equals nothing
eq_rows(d, column, value) ==
    [d EXCEPT !.rows = SelectSeq(d.rows, LAMBDA r : r[column] = Some(value))]

\* d[d[column].isin(values)]
isin_rows(d, column, values) ==
    [d EXCEPT !.rows = SelectSeq(d.rows, LAMBDA r : r[column] \in { Some(x) : x \in values })]

NoFacets ==
    [boroughs |-> {}, years |-> {}, vehicles |-> {}, factors |-> {}, injuries |-> {}]

NoInterp == [borough |-> None, year |-> None, injury |-> None]

-----------------------------------------------------------------------------
(* Search Text Logic of app.py *)

BRONX == <<"B","R","O","N","X">>
BROOKLYN == <<"B","R","O","O","K","L","Y","N">>
MANHATTAN == <<"M","A","N","H","A","T","T","A","N">>
QUEENS == <<"Q","U","E","E","N","S">>
STATEN_ISLAND == <<"S","T","A","T","E","N"," ","I","S","L","A","N","D">>

PEDESTRIAN == <<"P","E","D","E","S","T","R","I","A","N">>
CYCLIST == <<"C","Y","C","L","I","S","T">>
MOTORIST == <<"M","O","T","O","R","I","S","T">>

BOROUGHS == << BRONX, BROOKLYN, MANHATTAN, QUEENS, STATEN_ISLAND >>

\* next((b for b in BOROUGHS if b in text_u), None), from BOROUGHS[i] on
RECURSIVE next_borough(_, _)
next_borough(text_u, i) ==
    IF i > Len(BOROUGHS) THEN None
    ELSE IF Contains(text_u, BOROUGHS[i]) THEN Some(BOROUGHS[i])
    ELSE next_borough(text_u, i + 1)

\* mutant: the last borough of BOROUGHS found in the text
RECURSIVE last_borough(_, _, _)
last_borough(text_u, i, found) ==
    IF i > Len(BOROUGHS) THEN found
    ELSE last_borough(text_u, i + 1,
            IF Contains(text_u, BOROUGHS[i]) THEN Some(BOROUGHS[i]) ELSE found)

borough_from_text_LastMatch(text_u) == last_borough(text_u, 1, None)

borough_from_text(text_u) == next_borough(text_u, 1)

\* the loop over text_u.split(), from tokens[i] on, with its break
RECURSIVE year_loop(_, _)
year_loop(tokens, i) ==
    IF i > Len(tokens) THEN None
    ELSE LET token == tokens[i] IN
        IF isdigit(token) /\ Len(token) = 4 /\ 2012 <= int(token) /\ int(token) <= 2030
        THEN Some(int(token))
        ELSE year_loop(tokens, i + 1)

\* mutant: the loop without its break
RECURSIVE year_loop_NoBreak(_, _, _)
year_loop_NoBreak(tokens, i, found) ==
    IF i > Len(tokens) THEN found
    ELSE LET token == tokens[i] IN
        year_loop_NoBreak(tokens, i + 1,
            IF isdigit(token) /\ Len(token) = 4 /\ 2012 <= int(token) /\ int(token) <= 2030
            THEN Some(int(token))
            ELSE found)

year_from_text_NoBreak(text_u) == year_loop_NoBreak(split(text_u), 1, None)

year_from_text(text_u) == year_loop(split(text_u), 1)

\* mutant: CYCLIST tested before PEDESTRIAN
injury_from_text_CyclistFirst(text_u) ==
    IF Contains(text_u, <<"C","Y","C","L","I","S","T">>) \/ Contains(text_u, <<"B","I","C","Y","C","L","E">>) THEN Some(CYCLIST)
    ELSE IF Contains(text_u, <<"P","E","D","E","S","T","R","I","A","N">>) THEN Some(PEDESTRIAN)
    ELSE IF Contains(text_u, <<"M","O","T","O","R","I","S","T">>) \/ Contains(text_u, <<"D","R","I","V","E","R">>) THEN Some(MOTORIST)
    ELSE None

injury_from_text(text_u) ==
    IF Contains(text_u, <<"P","E","D","E","S","T","R","I","A","N">>) THEN Some(PEDESTRIAN)
    ELSE IF Contains(text_u, <<"C","Y","C","L","I","S","T">>) \/ Contains(text_u, <<"B","I","C","Y","C","L","E">>) THEN Some(CYCLIST)
    ELSE IF Contains(text_u, <<"M","O","T","O","R","I","S","T">>) \/ Contains(text_u, <<"D","R","I","V","E","R">>) THEN Some(MOTORIST)
    ELSE None

\* mutant: the text is looked for in the record's borough, vehicle category,
\* contributing factor and injury type
apply_search_text_BySubstring(df_in, t) ==
    IF t = None \/ t[1] = << >> \/ empty(df_in)
    THEN [df |-> df_in, borough |-> None, year |-> None, injury |-> None]
    ELSE [df |-> [df_in EXCEPT !.rows =
                    SelectSeq(df_in.rows, LAMBDA r :
                        \E c \in { COL_BOROUGH, COL_VEHICLE_CATEGORY, COL_FACTOR,
                                    COL_INJURY_TYPE } \cap df_in.columns :
                            r[c] # None /\ Contains(upper(r[c][1]), upper(t[1])))],
          borough |-> None, year |-> None, injury |-> None]

\* apply_search_text(df_in, text): the tuple it returns, as a record.  The
\* except branch is not modelled: text is None or a string, and none of the
\* operations raises on a string.
apply_search_text(df_in, t) ==
    IF t = None \/ t[1] = << >> \/ empty(df_in)
    THEN [df |-> df_in, borough |-> None, year |-> None, injury |-> None]
    ELSE LET text_u == upper(t[1])
             borough == borough_from_text(text_u)
             year == year_from_text(text_u)
             injury == injury_from_text(text_u)
             out1 == IF borough # None /\ COL_BOROUGH \in df_in.columns
                     THEN eq_rows(df_in, COL_BOROUGH, borough[1]) ELSE df_in
             out2 == IF year # None /\ year[1] # 0 /\ COL_YEAR \in out1.columns
                     THEN eq_rows(out1, COL_YEAR, year[1]) ELSE out1
             out3 == IF injury # None /\ COL_INJURY_TYPE \in out2.columns
                     THEN eq_rows(out2, COL_INJURY_TYPE, injury[1]) ELSE out2
         IN [df |-> out3, borough |-> borough, year |-> year, injury |-> injury]

-----------------------------------------------------------------------------
(* The search parser of app2.py *)

\* st.session_state before anything was typed: no filter_* key is set
FreshSession ==
    [search_input |-> << >>, filter_borough |-> None, filter_year |-> None,
     filter_injury |-> None]

\* the list boroughs of parse_search_query
query_boroughs == << BROOKLYN, QUEENS, MANHATTAN, BRONX, STATEN_ISLAND >>

\* for b in boroughs: if b.lower() in query: session_state['filter_borough'] = b
RECURSIVE detect_boroughs(_, _, _)
detect_boroughs(ss, query, i) ==
    IF i > Len(query_boroughs) THEN ss
    ELSE detect_boroughs(
            IF Contains(query, lower(query_boroughs[i]))
            THEN [ss EXCEPT !.filter_borough = Some(query_boroughs[i])] ELSE ss,
            query, i + 1)

\* for word in query.split(): if ...: session_state['filter_year'] = int(word)
RECURSIVE detect_years(_, _, _)
detect_years(ss, words, i) ==
    IF i > Len(words) THEN ss
    ELSE LET word == words[i] IN
        detect_years(
            IF isdigit(word) /\ startswith(word, <<"2","0">>) /\ Len(word) = 4
            THEN [ss EXCEPT !.filter_year = Some(int(word))] ELSE ss,
            words, i + 1)

detect_injury(ss, query) ==
    IF Contains(query, <<"p","e","d","e","s","t","r","i","a","n">>) THEN [ss EXCEPT !.filter_injury = Some(PEDESTRIAN)]
    ELSE IF Contains(query, <<"c","y","c","l","i","s","t">>) THEN [ss EXCEPT !.filter_injury = Some(CYCLIST)]
    ELSE IF Contains(query, <<"m","o","t","o","r","i","s","t">>) THEN [ss EXCEPT !.filter_injury = Some(MOTORIST)]
    ELSE ss

\* parse_search_query(), as the session state it leaves
parse_search_query(ss) ==
    LET query == lower(ss.search_input) IN
    IF query = << >> THEN ss
    ELSE detect_injury(detect_years(detect_boroughs(ss, query, 1), split(query), 1), query)

\* the filter_* keys a call of parse_search_query assigns for the text t: the
\* ones set after the call on a session in which none was set
assigned_by_parse(t) ==
    LET ss == parse_search_query([FreshSession EXCEPT !.search_input = t]) IN
    [borough |-> ss.filter_borough, year |-> ss.filter_year, injury |-> ss.filter_injury]

-----------------------------------------------------------------------------
(* app.py: the categorization at load and the callback update_report *)

with_column(r, c, v) == [k \in (DOMAIN r) \cup { c } |-> IF k = c THEN v ELSE r[k]]

\* "Apply vehicle categorization safely": df["VEHICLE_CATEGORY"] = ...
categorize(d) ==
    IF ~empty(d) /\ COL_VEHICLE_TYPE \in d.columns
    THEN [columns |-> d.columns \cup { COL_VEHICLE_CATEGORY },
          rows |-> [i \in 1..Len(d.rows) |->
                      with_column(d.rows[i], COL_VEHICLE_CATEGORY,
                                  Some(normalize_vehicle(d.rows[i][COL_VEHICLE_TYPE])))]]
    ELSE [columns |-> d.columns \cup { COL_VEHICLE_CATEGORY },
          rows |-> [i \in 1..Len(d.rows) |->
                      with_column(d.rows[i], COL_VEHICLE_CATEGORY, Some(UNKNOWN))]]

\* the list filter_operations of update_report
filter_operations(f) ==
    << [column |-> COL_BOROUGH, values |-> f.boroughs],
       [column |-> COL_YEAR, values |-> f.years],
       [column |-> COL_VEHICLE_CATEGORY, values |-> f.vehicles],
       [column |-> COL_FACTOR, values |-> f.factors],
       [column |-> COL_INJURY_TYPE, values |-> f.injuries] >>

\* mutant: every filter is applied to the frame the loop started with
RECURSIVE apply_filters_ToStart(_, _, _, _)
apply_filters_ToStart(start, d, ops, i) ==
    IF i > Len(ops) THEN d
    ELSE apply_filters_ToStart(start,
            IF ops[i].values # {} /\ ops[i].column \in d.columns
            THEN isin_rows(start, ops[i].column, ops[i].values) ELSE d,
            ops, i + 1)

apply_filters_EachOnFullFrame(d, ops, i) == apply_filters_ToStart(d, d, ops, i)

\* mutant: an empty selection is applied as a filter too
RECURSIVE apply_filters_EmptySelectionFilters(_, _, _)
apply_filters_EmptySelectionFilters(d, ops, i) ==
    IF i > Len(ops) THEN d
    ELSE apply_filters_EmptySelectionFilters(
            IF ops[i].column \in d.columns
            THEN isin_rows(d, ops[i].column, ops[i].values) ELSE d,
            ops, i + 1)

\* for column, values in filter_operations: ..., from filter_operations[i] on
RECURSIVE apply_filters(_, _, _)
apply_filters(d, ops, i) ==
    IF i > Len(ops) THEN d
    ELSE apply_filters(
            IF ops[i].values # {} /\ ops[i].column \in d.columns
            THEN isin_rows(d, ops[i].column, ops[i].values) ELSE d,
            ops, i + 1)

\* a view shows a figure, a message, or nothing; a view a program does not
\* have, or did not get to, is absent
Figure == "figure"
Nothing == "nothing"
Absent == "absent"
\* the view raised and nothing caught it: the run ends there
Raised == "raised"
NoViews == [bar |-> Absent, line |-> Absent, map |-> Absent, heatmap |-> Absent, pie |-> Absent]

\* create_empty_figure(message): the figure that holds only the message
create_empty_figure(message) == message

\* the three outputs of update_report when each is create_empty_figure(message)
empty_report(message) ==
    [NoViews EXCEPT !.bar = create_empty_figure(message),
                    !.line = create_empty_figure(message),
                    !.map = create_empty_figure(message)]

create_bar_chart(d) ==
    IF empty(d) \/ COL_BOROUGH \notin d.columns
    THEN create_empty_figure("No borough data available")
    ELSE Figure

create_line_chart(d) ==
    IF empty(d) \/ COL_YEAR \notin d.columns
    THEN create_empty_figure("No year data available")
    ELSE Figure

\* dff.dropna(subset=...): the positions of the records that have a value in
\* every column of subset
dropna(d, subset) ==
    { i \in 1..Len(d.rows) : \A c \in subset : ~isna(d.rows[i][c]) }

\* the first m positions of the generator's order rs that are among positions
RECURSIVE left_out(_, _, _)
left_out(rs, positions, m) ==
    IF m <= 0 \/ rs = << >> THEN {}
    ELSE IF Head(rs) \in positions
    THEN { Head(rs) } \cup left_out(Tail(rs), positions, m - 1)
    ELSE left_out(Tail(rs), positions, m)

\* map_df.sample(n, random_state=42): n of the records, the same ones whenever
\* the generator is seeded the same
sample(positions, n, rs) ==
    positions \ left_out(rs, positions, Cardinality(positions) - n)

\* the most records create_map plots
SAMPLE_CAP == 5000

\* mutant: the sample is drawn from every record of the subset
create_map_NoDropna(d, rs) ==
    IF empty(d) \/ ~(location_columns \subseteq d.columns)
    THEN [shown |-> create_empty_figure("No location data available"), sample |-> {}]
    ELSE IF ~(hover_data \subseteq d.columns)
    THEN [shown |-> create_empty_figure("Error creating map"), sample |-> {}]
    ELSE [shown |-> Figure,
          sample |-> sample(1..Len(d.rows), Min({ SAMPLE_CAP, Len(d.rows) }), rs)]

\* mutant: the map plots every record that has both coordinates
create_map_NoCap(d, rs) ==
    IF empty(d) \/ ~(location_columns \subseteq d.columns)
    THEN [shown |-> create_empty_figure("No location data available"), sample |-> {}]
    ELSE IF dropna(d, location_columns) = {}
    THEN [shown |-> create_empty_figure("No valid location data"), sample |-> {}]
    ELSE IF ~(hover_data \subseteq d.columns)
    THEN [shown |-> create_empty_figure("Error creating map"), sample |-> {}]
    ELSE [shown |-> Figure, sample |-> dropna(d, location_columns)]

\* create_map(dff) under the generator rs: what the map shows and the
\* positions of the records it plots.  px.density_mapbox raises on a
\* hover_data column the frame lacks, and the except branch answers.
create_map(d, rs) ==
    IF empty(d) \/ ~(location_columns \subseteq d.columns)
    THEN [shown |-> create_empty_figure("No location data available"), sample |-> {}]
    ELSE LET map_df == dropna(d, location_columns) IN
        IF map_df = {}
        THEN [shown |-> create_empty_figure("No valid location data"), sample |-> {}]
        ELSE IF ~(hover_data \subseteq d.columns)
        THEN [shown |-> create_empty_figure("Error creating map"), sample |-> {}]
        ELSE [shown |-> Figure,
              sample |-> sample(map_df, Min({ SAMPLE_CAP, Cardinality(map_df) }), rs)]

\* the body of update_report on the copy d of df: the filtered frame, how the
\* request ends, and what apply_search_text drew from the text.  The except
\* branch of update_report is not modelled: no step outside the figure
\* builders raises on these inputs.
report(d, f, t) ==
    IF empty(d) THEN [dff |-> d, outcome |-> "no_data", interp |-> NoInterp]
    ELSE LET found == apply_search_text(apply_filters(d, filter_operations(f), 1), t) IN
        [dff |-> found.df,
         outcome |-> IF empty(found.df) THEN "no_match" ELSE "report",
         interp |-> [borough |-> found.borough, year |-> found.year,
                     injury |-> found.injury]]

\* the three figures update_report returns for the filtered frame d and the
\* way the request ended, and the records the map plots
figures(d, ended) ==
    IF ended = "no_data"
    THEN [views |-> empty_report("No data available"), map_sample |-> {}]
    ELSE IF ended = "no_match"
    THEN [views |-> empty_report("No data matches your filters"), map_sample |-> {}]
    ELSE LET fig_map == create_map(d, random_state) IN
        [views |-> [NoViews EXCEPT !.bar = create_bar_chart(d),
                                   !.line = create_line_chart(d),
                                   !.map = fig_map.shown],
         map_sample |-> fig_map.sample]

\* mutant: a request filters what the request before it left
update_report_FromLastResult(d, f, t) ==
    LET r == report(IF event = "report" THEN dff ELSE d, f, t)
        figs == figures(r.dff, r.outcome)
    IN [df |-> d, dff |-> r.dff, outcome |-> r.outcome, interp |-> r.interp,
        views |-> figs.views, map_sample |-> figs.map_sample]

\* mutant: the filters narrow the module-level df itself
update_report_InPlace(d, f, t) ==
    LET r == report(d, f, t)
        figs == figures(r.dff, r.outcome)
    IN [df |-> r.dff, dff |-> r.dff, outcome |-> r.outcome, interp |-> r.interp,
        views |-> figs.views, map_sample |-> figs.map_sample]

\* update_report(n_clicks, boroughs, ..., search_text), with the module-level
\* df it leaves: dff = df.copy() and every filter rebinds the local dff
update_report(d, f, t) ==
    LET r == report(d, f, t)
        figs == figures(r.dff, r.outcome)
    IN [df |-> d, dff |-> r.dff, outcome |-> r.outcome, interp |-> r.interp,
        views |-> figs.views, map_sample |-> figs.map_sample]

-----------------------------------------------------------------------------
(* app2.py: one run of the script *)

All == <<"A","l","l">>

\* df[column].dropna().unique()
unique_values(d, column) ==
    { d.rows[i][column][1] : i \in { j \in 1..Len(d.rows) : d.rows[j][column] # None } }

value_count(d, column, v) ==
    Cardinality({ i \in 1..Len(d.rows) : d.rows[i][column] = Some(v) })

\* df[column].value_counts().head(n).index, as a set: n most frequent values,
\* any of them where counts tie
head_sets(d, column, n) ==
    LET vals == unique_values(d, column)
        k == IF Cardinality(vals) < n THEN Cardinality(vals) ELSE n
    IN { S \in SUBSET vals :
            /\ Cardinality(S) = k
            /\ \A a \in S : \A b \in vals \ S :
                    value_count(d, column, a) >= value_count(d, column, b) }

\* load_data of app2.py returns None when the file is missing: None is the
\* frame without columns, which read_csv never returns
df_is_None(d) == d = EmptyFrame

\* the columns the script reads
script_columns == { COL_BOROUGH, COL_YEAR, COL_VEHICLE_TYPE, COL_FACTOR }

\* the options of the multiselects are the ten most frequent values
top_vehicles(d) == head_sets(d, COL_VEHICLE_TYPE, 10)
top_factors(d) == head_sets(d, COL_FACTOR, 10)

\* default=top_vehicles[:2]
default_vehicles(d) ==
    IF df_is_None(d) \/ ~(script_columns \subseteq d.columns) THEN { {} }
    ELSE head_sets(d, COL_VEHICLE_TYPE, 2)

\* the four views of the dashboard on filtered_df: the map and the line chart
\* warn when there is nothing to plot, the heatmap and the pie chart have no
\* else branch
\* Crash Hotspots: px.scatter_mapbox is given filtered_df as it is, and
\* raises on a frame without the coordinate columns; nothing catches it
crash_hotspots(d) ==
    IF empty(d) THEN [shown |-> "No data for map.", sample |-> {}]
    ELSE IF ~(location_columns \subseteq d.columns) THEN [shown |-> Raised, sample |-> {}]
    ELSE [shown |-> Figure, sample |-> 1..Len(d.rows)]

script_views(d) ==
    IF crash_hotspots(d).shown = Raised THEN [NoViews EXCEPT !.map = Raised]
    ELSE [bar |-> Absent,
          map |-> crash_hotspots(d).shown,
          line |-> IF ~empty(d) THEN Figure ELSE "No data for line chart.",
          heatmap |-> IF ~empty(d) THEN Figure ELSE Nothing,
          pie |-> IF ~empty(d) THEN Figure ELSE Nothing]

\* One run of the script with st.session_state ss and the multiselects at
\* sel_vehicle and sel_factor.  A selectbox whose key holds a value that is
\* not among its options raises, returns the value, or falls back to the
\* option at its index (on_invalid): what versions of Streamlit do.  A failed
\* run leaves ss as it is.  reset names the keys that fell back.
run_script(d, ss, sel_vehicle, sel_factor, on_invalid) ==
    IF df_is_None(d)
    THEN [session_state |-> ss, dff |-> EmptyFrame, outcome |-> "no_file", reset |-> {},
          views |-> NoViews, map_sample |-> {}]
    ELSE IF ~(script_columns \subseteq d.columns)
    THEN [session_state |-> ss, dff |-> EmptyFrame, outcome |-> "error", reset |-> {},
          views |-> NoViews, map_sample |-> {}]
    ELSE LET unique_boroughs == { All } \cup unique_values(d, COL_BOROUGH)
             unique_years == unique_values(d, COL_YEAR)
             borough_valid ==
                ss.filter_borough = None \/ ss.filter_borough[1] \in unique_boroughs
             year_valid ==
                ss.filter_year = None \/ unique_years = {} \/ ss.filter_year[1] \in unique_years
             by_index_borough == IF QUEENS \in unique_boroughs THEN QUEENS ELSE All
             by_index_year ==
                IF unique_years = {} THEN None
                ELSE IF 2021 \in unique_years THEN Some(2021)
                ELSE Some(Min(unique_years))
             sel_borough ==
                IF ss.filter_borough = None THEN by_index_borough
                ELSE IF ~borough_valid /\ on_invalid = "reset" THEN All
                ELSE ss.filter_borough[1]
             sel_year ==
                IF ss.filter_year = None THEN by_index_year
                ELSE IF ~year_valid /\ on_invalid = "reset" THEN Some(Min(unique_years))
                ELSE ss.filter_year
             by_borough == IF sel_borough # All THEN eq_rows(d, COL_BOROUGH, sel_borough) ELSE d
             by_year == IF sel_year = None THEN [by_borough EXCEPT !.rows = << >>]
                        ELSE eq_rows(by_borough, COL_YEAR, sel_year[1])
             by_vehicle == IF sel_vehicle # {}
                           THEN isin_rows(by_year, COL_VEHICLE_TYPE, sel_vehicle) ELSE by_year
             filtered_df == IF sel_factor # {}
                            THEN isin_rows(by_vehicle, COL_FACTOR, sel_factor) ELSE by_vehicle
         IN IF ~(borough_valid /\ year_valid) /\ on_invalid = "raise"
            THEN [session_state |-> ss, dff |-> EmptyFrame, outcome |-> "error", reset |-> {},
                  views |-> NoViews, map_sample |-> {}]
            ELSE [session_state |->
                      [ss EXCEPT !.filter_borough = Some(sel_borough), !.filter_year = sel_year],
                  dff |-> filtered_df,
                  outcome |-> IF empty(filtered_df) THEN "no_match"
                              ELSE IF script_views(filtered_df).map = Raised THEN "error"
                              ELSE "report",
                  reset |-> IF on_invalid = "reset"
                            THEN { k \in { "borough", "year" } :
                                    \/ k = "borough" /\ ~borough_valid
                                    \/ k = "year" /\ ~year_valid }
                            ELSE {},
                  views |-> script_views(filtered_df),
                  map_sample |-> crash_hotspots(filtered_df).sample]

-----------------------------------------------------------------------------
(* The loaded data *)

Row(borough, year, vehicle, factor, injury, latitude, longitude) ==
    [c \in required_columns \cup location_columns |->
        CASE c = COL_BOROUGH -> borough
          [] c = COL_YEAR -> year
          [] c = COL_VEHICLE_TYPE -> vehicle
          [] c = COL_FACTOR -> factor
          [] c = COL_INJURY_TYPE -> injury
          [] c = COL_LATITUDE -> latitude
          [] c = COL_LONGITUDE -> longitude]

\* the records a loaded file is made of
Pool ==
    << Row(Some(QUEENS), Some(2021), Some(<<"S","e","d","a","n">>), Some(<<"U","n","s","p","e","c","i","f","i","e","d">>), Some(MOTORIST),
           Some(40), Some(-74)),
       Row(Some(BRONX), Some(2022), Some(<<"T","a","x","i">>), Some(<<"U","n","s","a","f","e"," ","S","p","e","e","d">>), Some(PEDESTRIAN),
           None, Some(-73)),
       Row(Some(BROOKLYN), Some(2021), None, None, Some(PEDESTRIAN),
           Some(100), Some(-74)),
       Row(None, None, Some(<< >>), Some(<<"U","n","s","a","f","e"," ","S","p","e","e","d">>), None,
           None, None) >>

\* no request has been served: no view is built and the generator leaves
\* nothing out
ViewsIdle ==
    /\ views = NoViews
    /\ map_sample = {}
    /\ random_state = << >>

NormalizerIdle ==
    /\ nv_in = None
    /\ nv_out = << >>
    /\ nv_n = 0

ProgramIdle ==
    /\ prog = "app"
    /\ df = EmptyFrame
    /\ phase = "idle"
    /\ facets = NoFacets
    /\ text = None
    /\ interp = NoInterp
    /\ dff = EmptyFrame
    /\ outcome = "none"
    /\ session_state = FreshSession
    /\ event = "none"
    /\ loaded = EmptyFrame
    /\ from_search = {}
    /\ ViewsIdle

-----------------------------------------------------------------------------
(* The programs: a file is loaded, then requests are served *)

\* the loaded file has all the required columns or lacks one of them
ColumnChoices ==
    { required_columns } \cup { required_columns \ { c } : c \in required_columns }

RECURSIVE PoolRows(_, _)
PoolRows(picked, columns) ==
    IF picked = {} THEN << >>
    ELSE << [c \in columns |-> Pool[Min(picked)][c]] >>
            \o PoolRows(picked \ { Min(picked) }, columns)

\* what load_data can return: no file (pd.DataFrame() in app.py, None in
\* app2.py), or at most MaxRows records of the pool under the columns present
LoadedFrames ==
    { EmptyFrame } \cup
    { [columns |-> columns \cup location_columns,
       rows |-> PoolRows(picked, columns \cup location_columns)] :
        columns \in ColumnChoices,
        picked \in { p \in SUBSET (1..Len(Pool)) : Cardinality(p) <= MaxRows } }

\* the values a request to update_report selects in each facet, if any
Selected ==
    [boroughs |-> { QUEENS, BRONX }, years |-> { 2021 }, vehicles |-> { CAR, TAXI },
     factors |-> { <<"U","n","s","p","e","c","i","f","i","e","d">> }, injuries |-> { PEDESTRIAN, MOTORIST }]

FacetChoices ==
    { [k \in DOMAIN Selected |-> IF k \in chosen THEN Selected[k] ELSE {}] :
        chosen \in SUBSET DOMAIN Selected }

\* the requests: any of the facet selections without a text, and a text, empty
\* or not, alone or with a selection in one facet
Requests ==
    { [facets |-> f, text |-> None] : f \in FacetChoices } \cup
    { [facets |-> f, text |-> Some(t)] :
        f \in { g \in FacetChoices : \A j, k \in DOMAIN g : g[j] = {} \/ g[k] = {} \/ j = k },
        t \in { << >>, <<"b","r","o","n","x"," ","p","e","d","e","s","t","r","i","a","n">>, <<"c","r","a","s","h","e","s">> } }

\* what is typed into the search box
ReportTexts == { << >>, <<"q","u","e","e","n","s"," ","2","0","2","2">>, <<"b","r","o","n","x"," ","p","e","d","e","s","t","r","i","a","n">>, <<"c","r","a","s","h","e","s">> }

\* what parse_search_query assigns for each of these texts
ParsedTexts == [t \in ReportTexts |-> assigned_by_parse(t)]

Init ==
    /\ NormalizerIdle
    /\ prog \in { "app", "app2" }
    /\ df \in LoadedFrames
    /\ loaded = df
    /\ phase = "loaded"
    /\ facets = NoFacets
    /\ text = None
    /\ interp = NoInterp
    /\ dff = EmptyFrame
    /\ outcome = "none"
    /\ session_state = FreshSession
    /\ event = "none"
    /\ from_search = {}
    /\ ViewsIdle

\* app.py, module level: the VEHICLE_CATEGORY column is added
Categorize ==
    /\ prog = "app"
    /\ phase = "loaded"
    /\ df' = categorize(df)
    /\ phase' = "serving"
    /\ UNCHANGED <<nvars, mvars, prog, facets, text, interp, dff, outcome, session_state, event,
                   loaded, from_search>>

\* app.py: a click on Generate Report
UpdateReport ==
    /\ prog = "app"
    /\ phase = "serving"
    /\ \E request \in Requests :
        \E r \in { update_report(df, request.facets, request.text) } :
        /\ df' = r.df
        /\ dff' = r.dff
        /\ outcome' = r.outcome
        /\ interp' = r.interp
        /\ facets' = request.facets
        /\ text' = request.text
        /\ views' = r.views
        /\ map_sample' = r.map_sample
    /\ event' = "report"
    /\ UNCHANGED <<nvars, random_state, prog, phase, session_state, loaded, from_search>>

\* the selections of the two multiselects, which have no key, are kept in facets
Multiselects(v, f) == [NoFacets EXCEPT !.vehicles = v, !.factors = f]

\* app2.py: the first run of the script, every widget at its default
FirstRun ==
    /\ prog = "app2"
    /\ phase = "loaded"
    /\ \E top2 \in default_vehicles(df) :
        \E r \in { run_script(df, session_state, top2, {}, "raise") } :
        /\ session_state' = r.session_state
        /\ dff' = r.dff
        /\ outcome' = r.outcome
        /\ views' = r.views
        /\ map_sample' = r.map_sample
        /\ facets' = Multiselects(top2, {})
    /\ phase' = "serving"
    /\ event' = "load"
    /\ UNCHANGED <<nvars, random_state, prog, df, text, interp, loaded, from_search>>

\* app2.py: the search text changes; on_change runs parse_search_query, then
\* the script runs again
SearchChange ==
    /\ prog = "app2"
    /\ phase = "serving"
    /\ \E t \in ReportTexts :
        /\ t # session_state.search_input
        /\ \E parsed \in { parse_search_query([session_state EXCEPT !.search_input = t]) },
              assigned \in { ParsedTexts[t] },
              on_invalid \in { "raise", "keep", "reset" } :
            \E r \in { run_script(df, parsed, facets.vehicles, facets.factors, on_invalid) } :
                /\ session_state' = r.session_state
                /\ dff' = r.dff
                /\ outcome' = r.outcome
                /\ views' = r.views
                /\ map_sample' = r.map_sample
                /\ from_search' =
                    (from_search \cup
                        { k \in { "borough", "year", "injury" } : assigned[k] # None })
                    \ r.reset
                /\ interp' = assigned
        /\ text' = Some(t)
    /\ event' = "search"
    /\ UNCHANGED <<nvars, random_state, prog, df, phase, facets, loaded>>

\* app2.py: the form is submitted with new selections, and the script runs again
SubmitForm ==
    /\ prog = "app2"
    /\ phase = "serving"
    /\ outcome \in { "report", "no_match" }
    /\ \E b \in { All } \cup unique_values(df, COL_BOROUGH),
          y \in IF unique_values(df, COL_YEAR) = {} THEN { None }
                ELSE { Some(x) : x \in unique_values(df, COL_YEAR) },
          v \in { {} } \cup top_vehicles(df),
          f \in { {} } \cup top_factors(df) :
        \E r \in { run_script(df,
                    [session_state EXCEPT !.filter_borough = Some(b), !.filter_year = y],
                    v, f, "raise") } :
           /\ session_state' = r.session_state
           /\ dff' = r.dff
           /\ outcome' = r.outcome
           /\ views' = r.views
           /\ map_sample' = r.map_sample
           /\ facets' = Multiselects(v, f)
    /\ interp' = NoInterp
    /\ from_search' = from_search \ { "borough", "year" }
    /\ event' = "submit"
    /\ UNCHANGED <<nvars, random_state, prog, df, phase, text, loaded>>

Next == Categorize \/ UpdateReport \/ FirstRun \/ SearchChange \/ SubmitForm

Spec == Init /\ [][Next]_vars

-----------------------------------------------------------------------------
(* The two search interpreters on their own: every text of SearchTexts,     *)
(* interpreted once.                                                         *)

SearchWords ==
    { <<"b","r","o","n","x">>, <<"B","r","o","o","k","l","y","n">>, <<"Q","U","E","E","N","S">>, <<"m","a","n","h","a","t","t","a","n">>, <<"s","t","a","t","e","n"," ","i","s","l","a","n","d">>,
      <<"2","0","2","2">>, <<"2","0","1","5">>, <<"1","9","9","9">>, <<"2","0","0","5">>, <<"2","0","1","1">>, <<"2","0","1","2">>, <<"2","0","3","0">>, <<"2","0","3","1">>,
      <<"2","0","2","2","1">>, <<"q","u","e","e","n","s","2","0","2","2">>,
      <<"p","e","d","e","s","t","r","i","a","n">>, <<"C","y","c","l","i","s","t">>, <<"b","i","c","y","c","l","e">>, <<"m","o","t","o","r","i","s","t">>, <<"d","r","i","v","e","r">>,
      <<"c","r","a","s","h","e","s">>, << >> }

RECURSIVE Phrases(_)
Phrases(n) ==
    IF n = 1 THEN SearchWords
    ELSE Phrases(n - 1) \cup { p \o <<" ">> \o w : p \in Phrases(n - 1), w \in SearchWords }

SearchTexts == { Some(p) : p \in Phrases(MaxWords) } \cup { None }

OneRowFrame ==
    [columns |-> required_columns \cup location_columns, rows |-> << Pool[1] >>]

\* the session an earlier search for "queens 2021 motorist" left
EarlierSession ==
    parse_search_query([FreshSession EXCEPT !.search_input = <<"q","u","e","e","n","s"," ","2","0","2","1"," ","m","o","t","o","r","i","s","t">>])

InitSearch ==
    /\ NormalizerIdle
    /\ text \in SearchTexts
    /\ phase = "query"
    /\ facets = NoFacets
    /\ interp = NoInterp
    /\ dff = EmptyFrame
    /\ outcome = "none"
    /\ event = "none"
    /\ from_search = {}
    /\ ViewsIdle
    /\ \/ /\ prog = "app"
          /\ df \in { OneRowFrame, EmptyFrame }
          /\ session_state = FreshSession
       \/ /\ prog = "app2"
          /\ text # None
          /\ df = OneRowFrame
          /\ session_state \in { FreshSession, EarlierSession }
    /\ loaded = df

\* apply_search_text(df, text)
ApplySearchText ==
    /\ prog = "app"
    /\ phase = "query"
    /\ LET r == apply_search_text(df, text) IN
        /\ interp' = [borough |-> r.borough, year |-> r.year, injury |-> r.injury]
        /\ dff' = r.df
    /\ phase' = "interpreted"
    /\ UNCHANGED <<nvars, mvars, prog, df, facets, text, outcome, session_state, event, loaded,
                   from_search>>

\* the text arrives in the search box and its on_change runs parse_search_query
ParseSearchQuery ==
    /\ prog = "app2"
    /\ phase = "query"
    /\ session_state' = parse_search_query([session_state EXCEPT !.search_input = text[1]])
    /\ interp' = assigned_by_parse(text[1])
    /\ phase' = "interpreted"
    /\ UNCHANGED <<nvars, mvars, prog, df, facets, text, dff, outcome, event, loaded,
                   from_search>>

NextSearch == ApplySearchText \/ ParseSearchQuery

SpecSearch == InitSearch /\ [][NextSearch]_vars

-----------------------------------------------------------------------------
(* The maps on their own: a filtered subset, mapped and then mapped again.   *)

\* the columns the two maps read, of those the model has
map_columns == required_columns \cup location_columns

\* the filtered subset may lack the coordinates or a hover_data column
MapColumnChoices ==
    { map_columns, map_columns \ { COL_LATITUDE }, map_columns \ { COL_BOROUGH } }

\* k records that have both coordinates
Located(k, columns) == [i \in 1..k |-> [c \in columns |-> Pool[1][c]]]

\* how many such records follow the records of the pool: none, one less than
\* create_map plots at most, or more than that
LocatedCounts == { 0, SAMPLE_CAP - 1, SAMPLE_CAP + MaxOver }

\* the filtered subsets: at most MaxRows records of the pool, then records
\* with both coordinates
MapFrames ==
    { [columns |-> columns, rows |-> PoolRows(picked, columns) \o Located(k, columns)] :
        columns \in MapColumnChoices,
        picked \in { p \in SUBSET (1..Len(Pool)) : Cardinality(p) <= MaxRows },
        k \in LocatedCounts }

RECURSIVE Ascending(_)
Ascending(n) == IF n <= 0 THEN << >> ELSE Ascending(n - 1) \o << n >>

RECURSIVE Descending(_, _)
Descending(from, n) ==
    IF n <= 0 \/ from <= 0 THEN << >> ELSE << from >> \o Descending(from - 1, n - 1)

\* what the generator seeded with 42 may do on a frame of n records: leave
\* out the first records, or the last
Generators(n) ==
    { Ascending(2 * MaxRows + MaxOver), Descending(n, 2 * MaxRows + MaxOver) }

InitMap ==
    /\ NormalizerIdle
    /\ prog \in { "app", "app2" }
    /\ df = EmptyFrame
    /\ loaded = EmptyFrame
    /\ phase = "filtered"
    /\ facets = NoFacets
    /\ text = None
    /\ interp = NoInterp
    /\ outcome = "none"
    /\ session_state = FreshSession
    /\ event = "none"
    /\ from_search = {}
    /\ views = NoViews
    /\ map_sample = {}
    /\ dff \in MapFrames
    /\ random_state \in Generators(Len(dff.rows))

\* app.py: create_map(dff), a first time and once again
CreateMap ==
    /\ prog = "app"
    /\ phase = "filtered"
    /\ event \in { "none", "map" }
    /\ \E fig_map \in { create_map(dff, random_state) } :
        /\ views' = [views EXCEPT !.map = fig_map.shown]
        /\ map_sample' = fig_map.sample
    /\ event' = IF event = "none" THEN "map" ELSE "map_again"
    /\ UNCHANGED <<nvars, random_state, prog, df, phase, facets, text, interp, dff, outcome,
                   session_state, loaded, from_search>>

\* app2.py: the Crash Hotspots block of the script, in a run and in the next
CrashHotspots ==
    /\ prog = "app2"
    /\ phase = "filtered"
    /\ event \in { "none", "map" }
    /\ views' = [views EXCEPT !.map = crash_hotspots(dff).shown]
    /\ map_sample' = crash_hotspots(dff).sample
    /\ event' = IF event = "none" THEN "map" ELSE "map_again"
    /\ UNCHANGED <<nvars, random_state, prog, df, phase, facets, text, interp, dff, outcome,
                   session_state, loaded, from_search>>

NextMap == CreateMap \/ CrashHotspots

SpecMap == InitMap /\ [][NextMap]_vars

-----------------------------------------------------------------------------
(* The normalizer on its own: every input of RawInputs, normalized and then *)
(* normalized again.                                                        *)

VehicleFragments ==
    { <<"A","M","B">>, <<"A","m","b","u","l","a","n","c","e">>, <<"a","m","b","u","l">>, <<"A","M","B","U","L","A","N","C","E">>,
      <<"T","A","X","I">>, <<"T","a","x","i">>, <<"B","U","S">>, <<"B","u","s">>,
      <<"M","O","T","O","R","C","Y","C","L","E">>, <<"S","c","o","o","t","e","r">>, <<"M","O","T","O","R","B","I","K","E">>,
      <<"B","I","C","Y","C","L","E">>, <<"E","-","B","i","k","e">>,
      <<"S","U","V">>, <<"S","t","a","t","i","o","n"," ","W","a","g","o","n">>, <<"S","T","A","T","I","O","N">>, <<"W","A","G","O","N">>, <<" ">>,
      <<"P","i","c","k","-","u","p">>, <<"P","I","C","K","U","P">>, <<"p","i","c","k">>,
      <<"T","R","U","C","K">>, <<"V","a","n">>, <<"T","R","U","C","K","/","V","A","N">>,
      <<"S","e","d","a","n">>, <<"4"," ","D","O","O","R">>, <<"4","-","d","o","o","r">>, <<"2"," ","D","O","O","R">>, <<"2","-","D","O","O","R">>, <<"D","O","O","R">>, <<"4">>, <<"-">>,
      <<"C","A","R">>, <<"O","T","H","E","R">>, <<"U","N","K","N","O","W","N">>, <<"x">> }

RECURSIVE Concatenations(_, _)
Concatenations(frags, n) ==
    IF n = 0 THEN { << >> }
    ELSE LET shorter == Concatenations(frags, n - 1) IN
        shorter \cup { s \o f : s \in shorter, f \in frags }

RawInputs == { Some(s) : s \in Concatenations(VehicleFragments, MaxFragments) } \cup { None }

InitNormalize ==
    /\ nv_in \in RawInputs
    /\ nv_out = << >>
    /\ nv_n = 0
    /\ ProgramIdle

\* df["VEHICLE TYPE CODE 1"].apply(normalize_vehicle), on one value
Normalize ==
    /\ nv_n = 0
    /\ nv_out' = normalize_vehicle(nv_in)
    /\ nv_n' = 1
    /\ UNCHANGED <<nv_in, avars, mvars>>

\* normalize_vehicle applied to what it returned
Renormalize ==
    /\ nv_n >= 1
    /\ nv_n < MaxApplications
    /\ nv_in' = Some(nv_out)
    /\ nv_out' = normalize_vehicle(Some(nv_out))
    /\ nv_n' = nv_n + 1
    /\ UNCHANGED <<avars, mvars>>

NextNormalize == Normalize \/ Renormalize

SpecNormalize == InitNormalize /\ [][NextNormalize]_vars

-----------------------------------------------------------------------------
(* Claims about normalize_vehicle *)

\* the ordered rules as the claims list them: keywords, category
RuleKeywords ==
    << { <<"A","M","B">> },
       { <<"T","A","X","I">> },
       { <<"B","U","S">> },
       { <<"M","O","T","O","R","C","Y","C","L","E">>, <<"S","C","O","O","T","E","R">>, <<"M","O","T","O","R","B","I","K","E">> },
       { <<"B","I","C","Y","C","L","E">>, <<"B","I","K","E">> },
       { <<"S","U","V">>, <<"S","T","A","T","I","O","N"," ","W","A","G","O","N">> },
       { <<"P","I","C","K">> },
       { <<"T","R","U","C","K">>, <<"V","A","N">> },
       { <<"S","E","D","A","N">>, <<"4"," ","D","O","O","R">>, <<"4","-","D","O","O","R">>, <<"2"," ","D","O","O","R">>, <<"2","-","D","O","O","R">> } >>

RuleCategory ==
    << AMBULANCE, TAXI, BUS, MOTORCYCLE, BICYCLE, SUV, TRUCK_VAN, TRUCK_VAN, CAR >>

MatchingRules(s) ==
    { i \in 1..Len(RuleKeywords) : \E k \in RuleKeywords[i] : Contains(s, k) }

FirstMatchingRule(s) ==
    CHOOSE i \in MatchingRules(s) : \A j \in MatchingRules(s) : i <= j

\* C1: for a raw string, normalize_vehicle returns the category of the first
\* rule (AMB, TAXI, BUS, MOTORCYCLE.., BICYCLE.., SUV.., PICK, TRUCK/VAN,
\* SEDAN..) with a keyword in the uppercased string; a string with "AMB" is an
\* AMBULANCE whatever else it holds, and BUS wins over STATION WAGON.
C1_FirstRuleWins ==
    (nv_n = 1 /\ ~isna(nv_in)) =>
        LET s == upper(nv_in[1]) IN
        /\ MatchingRules(s) # {} => nv_out = RuleCategory[FirstMatchingRule(s)]
        /\ Contains(s, <<"A","M","B">>) => nv_out = AMBULANCE
        /\ (Contains(s, <<"B","U","S">>) /\ Contains(s, <<"S","T","A","T","I","O","N"," ","W","A","G","O","N">>)
                /\ ~Contains(s, <<"A","M","B">>) /\ ~Contains(s, <<"T","A","X","I">>)) => nv_out = BUS

C1_Witness ==
    /\ nv_n = 1
    /\ ~isna(nv_in)
    /\ Contains(upper(nv_in[1]), <<"B","U","S">>)
    /\ Contains(upper(nv_in[1]), <<"S","T","A","T","I","O","N"," ","W","A","G","O","N">>)
    /\ nv_out = BUS

\* C2 as stated: UNKNOWN for an absent input and for the empty string, OTHER
\* for every non-empty string that matches no rule.
C2_AbsentOrEmptyIsUnknown ==
    nv_n = 1 =>
        /\ (isna(nv_in) \/ nv_in = Some(<< >>)) => nv_out = UNKNOWN
        /\ (~isna(nv_in) /\ nv_in # Some(<< >>) /\ MatchingRules(upper(nv_in[1])) = {})
                => nv_out = OTHER_CAT

\* C2 amended: UNKNOWN for an absent input; OTHER for every string that
\* matches no rule, the empty string included.
C2_AbsentIsUnknownElseOther ==
    nv_n = 1 =>
        /\ isna(nv_in) => nv_out = UNKNOWN
        /\ (~isna(nv_in) /\ MatchingRules(upper(nv_in[1])) = {}) => nv_out = OTHER_CAT

C2_Witness ==
    /\ nv_n = 1
    /\ nv_in = Some(<< >>)
    /\ nv_out = OTHER_CAT

\* C3 as stated: normalize_vehicle(normalize_vehicle(x)) = normalize_vehicle(x).
C3_Idempotent ==
    nv_n = 2 => nv_out = nv_in[1]

\* C3 amended: a second application returns the first result unless that is
\* CAR or UNKNOWN, which it turns into OTHER; from the second application on
\* the result no longer changes.
C3_IdempotentExceptCarUnknown ==
    /\ nv_n = 2 =>
        IF nv_in[1] \in { CAR, UNKNOWN } THEN nv_out = OTHER_CAT ELSE nv_out = nv_in[1]
    /\ nv_n > 2 => nv_out = nv_in[1]

C3_Witness ==
    /\ nv_n = 2
    /\ nv_in = Some(CAR)
    /\ nv_out = OTHER_CAT

-----------------------------------------------------------------------------
(* Claims about the search interpreters *)

\* the orders the claims speak of
CanonicalOrder == << BRONX, BROOKLYN, MANHATTAN, QUEENS, STATEN_ISLAND >>
ParserOrder == << BROOKLYN, QUEENS, MANHATTAN, BRONX, STATEN_ISLAND >>

NamesIn(names, t) == { i \in 1..Len(names) : Contains(upper(t), names[i]) }

FirstNameIn(names, t) ==
    IF NamesIn(names, t) = {} THEN None ELSE Some(names[Min(NamesIn(names, t))])

LastNameIn(names, t) ==
    IF NamesIn(names, t) = {} THEN None ELSE Some(names[Max(NamesIn(names, t))])

\* the step that interprets the text
Interprets == phase = "query" /\ phase' = "interpreted"

\* C4 as stated: in both programs the interpreted borough is the first name,
\* in the order BRONX, BROOKLYN, MANHATTAN, QUEENS, STATEN ISLAND, found in the
\* uppercased text, and none when no name is found.  (Read for a search that
\* gets as far as interpreting the text: the frame searched is not empty.)
C4_FirstCanonicalBorough ==
    (phase = "interpreted" /\ ~empty(df)) =>
        LET want == IF text = None THEN None ELSE FirstNameIn(CanonicalOrder, text[1]) IN
        interp.borough = want

\* C4 amended: apply_search_text, given a text and a frame that is not empty,
\* returns the first name in canonical order found in the text, and None when
\* there is none (or no text, or an empty frame); parse_search_query sets
\* filter_borough to the last name found in its own order BROOKLYN, QUEENS,
\* MANHATTAN, BRONX, STATEN ISLAND and leaves it as it was when none is found.
C4_BoroughPerProgram ==
    [][Interprets =>
        /\ prog = "app" =>
            interp'.borough =
                IF text = None \/ empty(df) THEN None
                ELSE FirstNameIn(CanonicalOrder, text[1])
        /\ prog = "app2" =>
            /\ interp'.borough = LastNameIn(ParserOrder, text[1])
            /\ session_state'.filter_borough =
                    IF interp'.borough = None THEN session_state.filter_borough
                    ELSE interp'.borough]_vars

C4_Witness ==
    /\ phase = "interpreted"
    /\ prog = "app"
    /\ text # None
    /\ Cardinality(NamesIn(CanonicalOrder, text[1])) = 2
    /\ interp.borough = Some(BRONX)

\* the tokens of t and the values the claims draw from them
Tokens(t) == split(upper(t))

IsYearToken(token) ==
    isdigit(token) /\ Len(token) = 4 /\ int(token) >= 2012 /\ int(token) <= 2030

IsCenturyToken(token) ==
    isdigit(token) /\ Len(token) = 4 /\ token[1] = "2" /\ token[2] = "0"

FirstYearToken(t) ==
    LET at == { i \in 1..Len(Tokens(t)) : IsYearToken(Tokens(t)[i]) } IN
    IF at = {} THEN None ELSE Some(int(Tokens(t)[Min(at)]))

LastCenturyToken(t) ==
    LET at == { i \in 1..Len(Tokens(t)) : IsCenturyToken(Tokens(t)[i]) } IN
    IF at = {} THEN None ELSE Some(int(Tokens(t)[Max(at)]))

\* C5 as stated: in both programs the interpreted year is the first token
\* that is all digits, four characters long and within [2012, 2030]; none when
\* no token qualifies.  (Read for a search on a frame that is not empty.)
C5_FirstYearInRange ==
    (phase = "interpreted" /\ ~empty(df)) =>
        LET want == IF text = None THEN None ELSE FirstYearToken(text[1]) IN
        interp.year = want

\* C5 amended: apply_search_text, given a text and a frame that is not empty,
\* returns the first token that is all digits, four characters long and within
\* [2012, 2030], and None when there is none; parse_search_query sets
\* filter_year to the last token that is all digits, four characters long and
\* starts with "20" (2000 to 2099), and leaves it as it was when there is none.
C5_YearPerProgram ==
    [][Interprets =>
        /\ prog = "app" =>
            interp'.year =
                IF text = None \/ empty(df) THEN None ELSE FirstYearToken(text[1])
        /\ prog = "app2" =>
            /\ interp'.year = LastCenturyToken(text[1])
            /\ session_state'.filter_year =
                    IF interp'.year = None THEN session_state.filter_year
                    ELSE interp'.year]_vars

C5_Witness ==
    /\ phase = "interpreted"
    /\ prog = "app"
    /\ text # None
    /\ Tokens(text[1]) = << <<"2","0","2","2">>, <<"2","0","1","5">> >>
    /\ interp.year = Some(2022)

\* the injury category the claims give a text
InjuryByPriority(t, cyclist_words, motorist_words) ==
    IF Contains(upper(t), PEDESTRIAN) THEN Some(PEDESTRIAN)
    ELSE IF \E w \in cyclist_words : Contains(upper(t), w) THEN Some(CYCLIST)
    ELSE IF \E w \in motorist_words : Contains(upper(t), w) THEN Some(MOTORIST)
    ELSE None

\* C6 as stated: in both programs PEDESTRIAN if the text has "PEDESTRIAN",
\* else CYCLIST if it has "CYCLIST" or "BICYCLE", else MOTORIST if it has
\* "MOTORIST" or "DRIVER", else none.  (Read for a search on a frame that is
\* not empty.)
C6_InjuryByPriority ==
    (phase = "interpreted" /\ ~empty(df)) =>
        LET want == IF text = None THEN None
                    ELSE InjuryByPriority(text[1], { CYCLIST, BICYCLE }, { MOTORIST, <<"D","R","I","V","E","R">> })
        IN
        interp.injury = want

\* C6 amended: apply_search_text, given a text and a frame that is not empty,
\* returns the category as stated, and None without a text or on an empty
\* frame; parse_search_query knows "pedestrian", "cyclist" and "motorist"
\* only, in that priority, and leaves filter_injury as it was when none of the
\* three is in the text ("brooklyn bicycle" sets no injury category).
C6_InjuryPerProgram ==
    [][Interprets =>
        /\ prog = "app" =>
            interp'.injury =
                IF text = None \/ empty(df) THEN None
                ELSE InjuryByPriority(text[1], { CYCLIST, BICYCLE }, { MOTORIST, <<"D","R","I","V","E","R">> })
        /\ prog = "app2" =>
            /\ interp'.injury = InjuryByPriority(text[1], { CYCLIST }, { MOTORIST })
            /\ session_state'.filter_injury =
                    IF interp'.injury = None THEN session_state.filter_injury
                    ELSE interp'.injury]_vars

C6_Witness ==
    /\ phase = "interpreted"
    /\ prog = "app"
    /\ text = Some(<<"B","r","o","o","k","l","y","n"," ","b","i","c","y","c","l","e">>)
    /\ interp.borough = Some(BROOKLYN)
    /\ interp.year = None
    /\ interp.injury = Some(CYCLIST)

-----------------------------------------------------------------------------
(* Claims about the composition of the filters *)

NoText == { None, Some(<< >>) }

\* the selections f with every facet but k cleared
OnlyFacet(f, k) == [j \in DOMAIN f |-> IF j = k THEN f[j] ELSE {}]

\* the orders in which n filters can be applied
Orders(n) == { p \in [1..n -> 1..n] : \A i, j \in 1..n : p[i] = p[j] => i = j }
OrdersOfFive == Orders(5)
OrdersOfFour == Orders(4)

\* the four filters of app2.py's script, each on its own
ScriptFilter(k, d) ==
    CASE k = 1 -> IF session_state.filter_borough[1] = All THEN d
                  ELSE eq_rows(d, COL_BOROUGH, session_state.filter_borough[1])
      [] k = 2 -> IF session_state.filter_year = None THEN [d EXCEPT !.rows = << >>]
                  ELSE eq_rows(d, COL_YEAR, session_state.filter_year[1])
      [] k = 3 -> IF facets.vehicles = {} THEN d
                  ELSE isin_rows(d, COL_VEHICLE_TYPE, facets.vehicles)
      [] k = 4 -> IF facets.factors = {} THEN d
                  ELSE isin_rows(d, COL_FACTOR, facets.factors)

RECURSIVE ScriptFilters(_, _, _)
ScriptFilters(d, p, i) ==
    IF i > Len(p) THEN d ELSE ScriptFilters(ScriptFilter(p[i], d), p, i + 1)

Rendered == outcome \in { "report", "no_match" }

\* C7: the filtered subset is the intersection of the subsets each single
\* facet gives alone, and is the same in whatever order the single-facet
\* filters are applied: in update_report for every combination of the five
\* facets (requests without a text), and in app2.py's script for its four
\* filters (borough, year, vehicle type, factor).
C7_FacetsIntersect ==
    /\ (prog = "app" /\ event = "report" /\ text \in NoText) =>
        /\ dff.columns = df.columns
        /\ dff.rows =
            SelectSeq(df.rows, LAMBDA r :
                \A k \in DOMAIN facets :
                    InSeq(r, report(df, OnlyFacet(facets, k), None).dff.rows))
        /\ LET ops == filter_operations(facets) IN
            \A p \in OrdersOfFive :
                apply_filters(df, << ops[p[1]], ops[p[2]], ops[p[3]], ops[p[4]], ops[p[5]] >>, 1)
                    = dff
    /\ (prog = "app2" /\ Rendered) =>
        /\ dff.columns = df.columns
        /\ dff.rows =
            SelectSeq(df.rows, LAMBDA r :
                \A k \in 1..4 : InSeq(r, ScriptFilter(k, df).rows))
        /\ \A p \in OrdersOfFour : ScriptFilters(df, p, 1) = dff

\* two facets that each keep one record, and not the same one
C7_Witness ==
    /\ prog = "app"
    /\ event = "report"
    /\ text = None
    /\ Len(df.rows) = 2
    /\ Len(dff.rows) = 0
    /\ \E j, k \in DOMAIN facets :
        /\ report(df, OnlyFacet(facets, j), None).dff.rows = << df.rows[1] >>
        /\ report(df, OnlyFacet(facets, k), None).dff.rows = << df.rows[2] >>

\* app2.py's first run on a file that has records and the columns the script reads
FirstRunOnData ==
    /\ prog = "app2"
    /\ event = "load"
    /\ Len(df.rows) > 0
    /\ script_columns \subseteq df.columns

\* C8: a report request with no facet selected and no search text, on a
\* dataset that is not empty, filters to the full dataset; no record is
\* dropped by a default or implicit constraint.
C8_NoCriteriaFullData ==
    /\ (prog = "app" /\ event = "report" /\ facets = NoFacets /\ text \in NoText
            /\ ~empty(df)) =>
        (dff = df /\ outcome = "report")
    /\ FirstRunOnData => (dff = df /\ outcome = "report")

\* C8 amended: update_report does as stated.  app2.py's script has no request
\* without criteria: its first run, which nobody has touched, filters to the
\* borough QUEENS (every borough when the data has no QUEENS), to the year
\* 2021 (the earliest year when the data has no 2021) and to the two most
\* frequent raw vehicle types.
C8_FullDataOrDefaults ==
    /\ (prog = "app" /\ event = "report" /\ facets = NoFacets /\ text \in NoText
            /\ ~empty(df)) =>
        (dff = df /\ outcome = "report")
    /\ FirstRunOnData =>
        LET years == unique_values(df, COL_YEAR)
            year == IF 2021 \in years THEN 2021 ELSE Min(years)
        IN
        /\ facets.vehicles \in head_sets(df, COL_VEHICLE_TYPE, 2)
        /\ facets.factors = {}
        /\ dff.rows =
            SelectSeq(df.rows, LAMBDA r :
                /\ QUEENS \in unique_values(df, COL_BOROUGH) => r[COL_BOROUGH] = Some(QUEENS)
                /\ years # {}
                /\ r[COL_YEAR] = Some(year)
                /\ facets.vehicles # {} =>
                    (r[COL_VEHICLE_TYPE] # None
                        /\ r[COL_VEHICLE_TYPE][1] \in facets.vehicles))

C8_Witness ==
    /\ prog = "app"
    /\ event = "report"
    /\ facets = NoFacets
    /\ text = Some(<< >>)
    /\ Len(df.rows) = 2
    /\ dff = df
    /\ outcome = "report"

\* what app2.py's script shows for selections b, y, v and f, whatever came before
ScriptResult(b, y, v, f) ==
    LET r == run_script(loaded, [FreshSession EXCEPT !.filter_borough = b, !.filter_year = y],
                        v, f, "keep")
    IN [dff |-> r.dff, outcome |-> r.outcome]

AppRequestLocal ==
    (prog = "app" /\ event = "report") =>
        LET r == report(categorize(loaded), facets, text) IN
        /\ dff = r.dff
        /\ outcome = r.outcome
        /\ interp = r.interp

\* C9: the result of a report request depends only on the facet selections
\* and the search text submitted with it, whatever requests and searches came
\* before, and a value interpreted from an earlier search text never
\* constrains a later request whose text does not contain it.
C9_RequestLocal ==
    /\ AppRequestLocal
    /\ (prog = "app2" /\ event = "search" /\ Rendered) =>
        /\ "borough" \in from_search => session_state.filter_borough = interp.borough
        /\ "year" \in from_search => session_state.filter_year = interp.year

\* C9 amended: in app.py the result depends only on the request.  In app2.py
\* a run shows what the borough and year in st.session_state and the two
\* multiselects select; a search overwrites only the keys its text names, so
\* a borough or year interpreted from an earlier search text stays in
\* st.session_state and constrains every later run, until a later search text
\* names another or the form is submitted.
C9_RequestLocalOrSession ==
    /\ AppRequestLocal
    /\ (prog = "app2" /\ Rendered) =>
        /\ [dff |-> dff, outcome |-> outcome] =
                ScriptResult(session_state.filter_borough, session_state.filter_year,
                             facets.vehicles, facets.factors)
        /\ "borough" \in from_search =>
            \E t \in ReportTexts : session_state.filter_borough = ParsedTexts[t].borough
        /\ "year" \in from_search =>
            \E t \in ReportTexts : session_state.filter_year = ParsedTexts[t].year
    /\ (prog = "app2" /\ event = "search") =>
        /\ interp = ParsedTexts[text[1]]
        /\ (interp.borough # None /\ "borough" \in from_search) =>
                session_state.filter_borough = interp.borough
        /\ (interp.year # None /\ "year" \in from_search) =>
                session_state.filter_year = interp.year

\* the borough of an earlier search constrains the search for "crashes"
C9_Witness ==
    /\ prog = "app2"
    /\ event = "search"
    /\ text = Some(<<"c","r","a","s","h","e","s">>)
    /\ interp = NoInterp
    /\ "borough" \in from_search
    /\ session_state.filter_borough = Some(BRONX)
    /\ outcome = "report"
    /\ \E i \in 1..Len(df.rows) : ~InSeq(df.rows[i], dff.rows)

\* C10: after load no report request changes the shared dataset: its records
\* and each record's VEHICLE_CATEGORY, computed at load from the raw vehicle
\* type, are the same in every state, and a filter step gives a derived view
\* of it.
C10_DatasetUnchanged ==
    /\ (prog = "app" /\ phase = "serving") =>
        /\ df.columns = loaded.columns \cup { COL_VEHICLE_CATEGORY }
        /\ Len(df.rows) = Len(loaded.rows)
        /\ \A i \in 1..Len(df.rows) :
            /\ \A c \in loaded.columns : df.rows[i][c] = loaded.rows[i][c]
            /\ df.rows[i][COL_VEHICLE_CATEGORY] =
                Some(IF COL_VEHICLE_TYPE \in loaded.columns
                     THEN normalize_vehicle(loaded.rows[i][COL_VEHICLE_TYPE])
                     ELSE UNKNOWN)
    /\ (prog = "app" /\ event = "report") =>
        /\ dff.columns = df.columns
        /\ \A i \in 1..Len(dff.rows) : InSeq(dff.rows[i], df.rows)
    /\ prog = "app2" => df = loaded

\* a request that kept one of two records, and the dataset still has both
C10_Witness ==
    /\ prog = "app"
    /\ event = "report"
    /\ Len(loaded.rows) = 2
    /\ Len(dff.rows) = 1
    /\ Len(df.rows) = 2
    /\ df.rows[1][COL_VEHICLE_CATEGORY] = Some(CAR)
    /\ df.rows[2][COL_VEHICLE_CATEGORY] = Some(UNKNOWN)

-----------------------------------------------------------------------------
(* Claims about missing columns, empty results, the search text and the map *)

\* r satisfies the facet selection op, if op selects anything on a column of d
FacetHolds(d, op, r) ==
    (op.values # {} /\ op.column \in d.columns) =>
        (r[op.column] # None /\ r[op.column][1] \in op.values)

\* r has the value v in column, if the text gave a value and d has the column
InterpretedHolds(d, column, v, r) ==
    (v # None /\ column \in d.columns) => r[column] = v

\* the records of d that satisfy every predicate of the selections f and the
\* interpreted values i whose column d has
KeptByPresent(d, f, i) ==
    SelectSeq(d.rows, LAMBDA r :
        /\ \A k \in 1..5 : FacetHolds(d, filter_operations(f)[k], r)
        /\ InterpretedHolds(d, COL_BOROUGH, i.borough, r)
        /\ InterpretedHolds(d, COL_YEAR, i.year, r)
        /\ InterpretedHolds(d, COL_INJURY_TYPE, i.injury, r))

\* a loaded file that has records and lacks one of the required columns
LacksColumn == ~empty(loaded) /\ ~(required_columns \subseteq loaded.columns)

\* update_report on a file that lacks a column: the predicates on the columns
\* it has are applied, and the request is answered
C11_AppSkipsMissingColumn ==
    (prog = "app" /\ event = "report" /\ LacksColumn) =>
        /\ outcome \in { "report", "no_match" }
        /\ dff.rows = KeptByPresent(df, facets, interp)

\* C11: when the dataset lacks a column that a predicate depends on, the
\* predicate is treated as always true and the remaining predicates are still
\* applied; the request does not end in the error outcome because of the
\* missing column: in update_report, and in app2.py's script.
C11_MissingColumnSkipped ==
    /\ C11_AppSkipsMissingColumn
    /\ (prog = "app2" /\ event # "none" /\ LacksColumn
            /\ ~(script_columns \subseteq loaded.columns)) =>
        outcome # "error"

\* update_report dropped a record by year on a file without the BOROUGH
\* column, though boroughs were selected
C11_AppWitness ==
    /\ prog = "app"
    /\ event = "report"
    /\ COL_BOROUGH \notin loaded.columns
    /\ facets.boroughs # {}
    /\ facets.years # {}
    /\ Len(df.rows) = 2
    /\ Len(dff.rows) = 1
    /\ outcome = "report"

\* app2.py's first run on a file that has records and no BOROUGH column
C11_Witness ==
    /\ prog = "app2"
    /\ event = "load"
    /\ Len(loaded.rows) = 2
    /\ loaded.columns = (required_columns \ { COL_BOROUGH }) \cup location_columns
    /\ outcome = "error"
    /\ views = NoViews

\* the views each program has
AppViews == { "bar", "line", "map" }
ScriptViews == { "map", "line", "heatmap", "pie" }

\* what a view shows when a computation failed: the except branches of
\* update_report and of the three figure builders
FailureMessages ==
    { "Error generating report", "Error creating bar chart", "Error creating line chart",
      "Error creating map" }

\* what a view shows when there is no record to show
EmptyResultMessages ==
    { "No data available", "No data matches your filters", "No data for map.",
      "No data for line chart." }

\* update_report on a filtered subset without records: each of the three
\* views shows an empty-result message; on a subset with records none does
C12_AppZeroRecordsExplicit ==
    /\ (prog = "app" /\ event = "report" /\ Len(dff.rows) = 0) =>
        /\ outcome \in { "no_data", "no_match" }
        /\ outcome = "no_data" <=> empty(df)
        /\ \A k \in AppViews : views[k] \in EmptyResultMessages
    /\ (prog = "app" /\ event = "report" /\ Len(dff.rows) > 0) =>
        /\ outcome = "report"
        /\ \A k \in AppViews : views[k] \notin EmptyResultMessages

\* C12: every report request whose filtered subset has zero records, because
\* the dataset is empty or because no record satisfies the criteria, ends in
\* an explicit empty-result outcome for every view, never in an exception or
\* the computation-failure outcome, and the zero-match outcome is
\* distinguishable from the failure outcome and from a report with records:
\* in update_report, and in every run of app2.py's script that filtered.
C12_ZeroRecordsExplicit ==
    /\ EmptyResultMessages \cap FailureMessages = {}
    /\ C12_AppZeroRecordsExplicit
    /\ (prog = "app2" /\ Rendered /\ Len(dff.rows) = 0) =>
        /\ outcome = "no_match"
        /\ \A k \in ScriptViews : views[k] \in EmptyResultMessages
    /\ (prog = "app2" /\ Rendered /\ Len(dff.rows) > 0) =>
        /\ outcome = "report"
        /\ \A k \in ScriptViews : views[k] \notin EmptyResultMessages

\* update_report found no record for its criteria in a file of two, and the
\* three views say so
C12_AppWitness ==
    /\ prog = "app"
    /\ event = "report"
    /\ Len(df.rows) = 2
    /\ outcome = "no_match"
    /\ views = empty_report("No data matches your filters")

\* a submitted form of app2.py selected no record of a file of two: the map
\* and the line chart warn, the heatmap and the pie chart show nothing
C12_Witness ==
    /\ prog = "app2"
    /\ event = "submit"
    /\ Len(df.rows) = 2
    /\ outcome = "no_match"
    /\ views.map = "No data for map."
    /\ views.line = "No data for line chart."
    /\ views.heatmap = Nothing
    /\ views.pie = Nothing

\* a report request of update_report with a search text, on a file with records
TextRequest == prog = "app" /\ event = "report" /\ text \notin NoText /\ ~empty(df)

\* the columns the claim looks for the query in
TextFields == { COL_BOROUGH, COL_VEHICLE_CATEGORY, COL_FACTOR, COL_INJURY_TYPE }

\* the query q, compared case-insensitively, is a substring of one of the
\* text fields of r
TextInRecord(d, q, r) ==
    \E c \in TextFields \cap d.columns :
        r[c] # None /\ Contains(lower(r[c][1]), lower(q))

Interpreted(t) ==
    [borough |-> borough_from_text(upper(t)), year |-> year_from_text(upper(t)),
     injury |-> injury_from_text(upper(t))]

Present(d) ==
    IF location_columns \subseteq d.columns
    THEN { i \in 1..Len(d.rows) :
            d.rows[i][COL_LATITUDE] # None /\ d.rows[i][COL_LONGITUDE] # None }
    ELSE {}

\* of these, the ones whose coordinates are a latitude and a longitude at all
Plausible(d) ==
    { i \in Present(d) :
        /\ -90 <= d.rows[i][COL_LATITUDE][1] /\ d.rows[i][COL_LATITUDE][1] <= 90
        /\ -180 <= d.rows[i][COL_LONGITUDE][1] /\ d.rows[i][COL_LONGITUDE][1] <= 180 }

Mapped == event \in { "map", "map_again" }

\* the second invocation on the same subset plots the records the first did
SameOnRepeat ==
    (event = "map" /\ event' = "map_again") =>
        (map_sample' = map_sample /\ views'.map = views.map)

SampleOfPlausible ==
    Mapped =>
        /\ map_sample \subseteq Plausible(dff)
        /\ Cardinality(map_sample) = Min({ SAMPLE_CAP, Cardinality(Plausible(dff)) })

SampleOfPresent ==
    /\ (prog = "app" /\ Mapped) =>
        /\ views.map = Figure <=> (Present(dff) # {} /\ hover_data \subseteq dff.columns)
        /\ views.map = Figure =>
            /\ map_sample \subseteq Present(dff)
            /\ Cardinality(map_sample) = Min({ SAMPLE_CAP, Cardinality(Present(dff)) })
        /\ views.map # Figure => map_sample = {}
    /\ (prog = "app2" /\ Mapped) =>
        /\ views.map = Figure <=> (~empty(dff) /\ location_columns \subseteq dff.columns)
        /\ views.map = Figure => map_sample = 1..Len(dff.rows)
        /\ views.map # Figure => map_sample = {}

=============================================================================
